---- MODULE Spec2Model ----
\* A model of gerber/layers.go: the Layer type, its aperture registry (Add),
\* its serialization (WriteGerber) and its cached bounding box (MBB).
EXTENDS Integers, Sequences, FiniteSets, TLC

\* ---------------------------------------------------------------- bounds

\* Largest number of primitives a layer holds in the model.
MaxPrims == 3
\* Largest number of primitives one Add call is given.
MaxArgs == 2
\* Largest number of layers a design holds in the model.
MaxLayers == 2

\* ------------------------------------------------- external collaborators

\* The nil *Aperture and the nil *MBB.
Nil == 0

\* The Aperture objects primitives may refer to, by address, each with the
\* identity key its ID() reports. Objects 1 and 2 are two distinct apertures
\* with the same key; object 4 reports the reserved key.
ApertureKey == <<"A", "A", "B", "default">>

AperturePtrs == 1..Len(ApertureKey)

\* Aperture.ID(): the identity key of an aperture; the nil aperture reports
\* the reserved key "default".
ID(a) == IF a = Nil THEN "default" ELSE ApertureKey[a]

\* Bounding boxes (MBB values): Min and Max corners.
Box(x0, y0, x1, y1) == [Min |-> <<x0, y0>>, Max |-> <<x1, y1>>]

\* The Primitive objects a caller may add, by id: each with the aperture its
\* Aperture() reports (Nil for none) and the box its MBB() reports.
PrimitivePool ==
    << [Aperture |-> 1,   MBB |-> Box(1, 1, 2, 2)],
       [Aperture |-> 2,   MBB |-> Box(0 - 1, 0, 0, 3)],
       [Aperture |-> 3,   MBB |-> Box(0, 0 - 2, 3, 0)],
       [Aperture |-> 4,   MBB |-> Box(1, 1, 2, 2)],
       [Aperture |-> Nil, MBB |-> Box(0 - 1, 0, 0, 3)] >>

PrimitiveIds == 1..Len(PrimitivePool)

\* Primitive.Aperture()
PrimitiveAperture(p) == PrimitivePool[p].Aperture

\* Primitive.MBB()
PrimitiveMBB(p) == PrimitivePool[p].MBB

Min2(a, b) == IF a < b THEN a ELSE b
Max2(a, b) == IF a > b THEN a ELSE b

\* MBB.Join: enlarges box to the union of box and other.
Join(box, other) ==
    [Min |-> <<Min2(box.Min[1], other.Min[1]), Min2(box.Min[2], other.Min[2])>>,
     Max |-> <<Max2(box.Max[1], other.Max[1]), Max2(box.Max[2], other.Max[2])>>]

\* The zero value MBB{}.
ZeroMBB == Box(0, 0, 0, 0)

\* ------------------------------------------------------------ the design

FilenamePrefix == "board"

\* makeLayer with the sentinel entry left at the zero value.
makeLayerZeroSentinel(prefix, extension) ==
    [Filename    |-> prefix \o "." \o extension,
     Primitives  |-> <<>>,
     Apertures   |-> <<>>,
     apertureMap |-> [k \in {"default"} |-> 0],
     g           |-> Nil,
     mbb         |-> <<>>]

\* makeLayer: the layer a factory call builds. Primitives and Apertures are
\* nil slices, g and mbb are nil pointers, the registry holds the sentinel.
makeLayer(prefix, extension) ==
    [Filename    |-> prefix \o "." \o extension,
     Primitives  |-> <<>>,
     Apertures   |-> <<>>,
     apertureMap |-> [k \in {"default"} |-> 0 - 1],
     g           |-> Nil,
     mbb         |-> <<>>]

\* makeLayer putting the new layer in front of the design's layers.
GerberMakeLayerPrepends(gg, extension) ==
    LET layer == makeLayer(gg.FilenamePrefix, extension) IN
    [g |-> [gg EXCEPT !.Layers = <<layer>> \o @], layer |-> layer]

\* Gerber.makeLayer(extension) on the design gg: the design afterwards and the
\* layer returned, which is the one appended to gg.Layers.
GerberMakeLayer(gg, extension) ==
    LET layer == makeLayer(gg.FilenamePrefix, extension) IN
    [g |-> [gg EXCEPT !.Layers = Append(@, layer)], layer |-> layer]

\* A new design without layers.
NewGerber == [FilenamePrefix |-> FilenamePrefix, Layers |-> <<>>]

\* Gerber.TopCopper(): the layer the call returns.
TopCopper == makeLayer(FilenamePrefix, "gtl")

\* The layer-kind constructors without a parameter and their extensions.
LayerKinds ==
    {"TopCopper", "TopSolderMask", "TopSilkscreen", "BottomCopper",
     "BottomSolderMask", "BottomSilkscreen", "Drill", "Outline"}

KindExtension(kind) ==
    CASE kind = "TopCopper"        -> "gtl"
      [] kind = "TopSolderMask"    -> "gts"
      [] kind = "TopSilkscreen"    -> "gto"
      [] kind = "BottomCopper"     -> "gbl"
      [] kind = "BottomSolderMask" -> "gbs"
      [] kind = "BottomSilkscreen" -> "gbo"
      [] kind = "Drill"            -> "drl"
      [] kind = "Outline"          -> "gko"

RECURSIVE Decimal(_)
\* The decimal digits of n >= 0.
Decimal(n) ==
    LET digit == <<"0", "1", "2", "3", "4", "5", "6", "7", "8", "9">> IN
    IF n < 10 THEN digit[n + 1] ELSE Decimal(n \div 10) \o digit[(n % 10) + 1]

\* fmt.Sprintf("gl%v", n)
LayerNExtension(n) == "gl" \o (IF n < 0 THEN "-" \o Decimal(0 - n) ELSE Decimal(n))

\* The layer numbers callers pass to LayerN.
LayerNumbers == {2, 12}

\* ------------------------------------------------------------------- Add

\* m[k] = v on a Go map.
MapSet(m, k, v) == [x \in DOMAIN m \cup {k} |-> IF x = k THEN v ELSE m[x]]

\* m[k] on a Go map: the zero value when the key is absent.
MapGet(m, k) == IF k \in DOMAIN m THEN m[k] ELSE 0

\* AddStep without the registry lookup: every non-nil aperture is registered.
AddStepNoDedup(l, p) ==
    LET a == PrimitiveAperture(p) IN
    IF a = Nil THEN l
    ELSE [l EXCEPT !.apertureMap = MapSet(@, ID(a), Len(l.Apertures)),
                   !.Apertures = Append(@, a)]

\* AddStep deduplicating by aperture address instead of identity key.
AddStepByPointer(l, p) ==
    LET a == PrimitiveAperture(p) IN
    IF a = Nil \/ ID(a) = "default" THEN l
    ELSE IF \E i \in DOMAIN l.Apertures : l.Apertures[i] = a THEN l
    ELSE [l EXCEPT !.apertureMap = MapSet(@, ID(a), Len(l.Apertures)),
                   !.Apertures = Append(@, a)]

\* AddStep taking a key mapped to a negative index for unregistered.
AddStepSentinelAware(l, p) ==
    LET a == PrimitiveAperture(p) IN
    IF a = Nil THEN l
    ELSE LET id == ID(a) IN
         IF id \in DOMAIN l.apertureMap /\ l.apertureMap[id] >= 0 THEN l
         ELSE [l EXCEPT !.apertureMap = MapSet(@, id, Len(l.Apertures)),
                        !.Apertures = Append(@, a)]

\* AddStep registering the length of Apertures after the append.
AddStepIndexAfterAppend(l, p) ==
    LET a == PrimitiveAperture(p) IN
    IF a = Nil THEN l
    ELSE LET id == ID(a) IN
         IF id \in DOMAIN l.apertureMap THEN l
         ELSE [l EXCEPT !.apertureMap = MapSet(@, id, Len(l.Apertures) + 1),
                        !.Apertures = Append(@, a)]

\* One iteration of Add's loop, for primitive p.
AddStep(l, p) ==
    LET a == PrimitiveAperture(p) IN
    IF a = Nil THEN l
    ELSE LET id == ID(a) IN
         IF id \in DOMAIN l.apertureMap THEN l
         ELSE [l EXCEPT !.apertureMap = MapSet(@, id, Len(l.Apertures)),
                        !.Apertures = Append(@, a)]

RECURSIVE AddLoop(_, _, _)
\* Add's loop over primitives[i..].
AddLoop(l, primitives, i) ==
    IF i > Len(primitives) THEN l
    ELSE AddLoop(AddStep(l, primitives[i]), primitives, i + 1)

\* Add whose loop starts at the second primitive.
AddSkipsFirst(l, primitives) ==
    LET l1 == AddLoop(l, primitives, 2) IN
    [l1 EXCEPT !.Primitives = @ \o primitives]

\* Add appending inside the loop, after the two continue statements: only the
\* primitives that register an aperture are appended.
AddAppendsInLoop(l, primitives) ==
    LET l1 == AddLoop(l, primitives, 1)
        new(i) == /\ PrimitiveAperture(primitives[i]) # Nil
                  /\ ID(PrimitiveAperture(primitives[i])) \notin DOMAIN l.apertureMap
                  /\ \A j \in 1..(i - 1) :
                        ID(PrimitiveAperture(primitives[j])) # ID(PrimitiveAperture(primitives[i]))
        RECURSIVE kept(_)
        kept(i) == IF i > Len(primitives) THEN <<>>
                   ELSE (IF new(i) THEN <<primitives[i]>> ELSE <<>>) \o kept(i + 1)
    IN [l1 EXCEPT !.Primitives = @ \o kept(1)]

\* Add clearing the cached bounding box.
AddInvalidatesCache(l, primitives) ==
    LET l1 == AddLoop(l, primitives, 1) IN
    [l1 EXCEPT !.Primitives = @ \o primitives, !.mbb = <<>>]

\* Layer.Add(primitives...)
Add(l, primitives) ==
    LET l1 == AddLoop(l, primitives, 1) IN
    [l1 EXCEPT !.Primitives = @ \o primitives]

\* ----------------------------------------------------------- WriteGerber

\* The sink (an io.Writer): failAt = 0 never fails; otherwise its failAt-th
\* write and every later one fail. calls are the writes attempted, data the
\* writes accepted, err whether some write has failed.
NewWriter(failAt) == [failAt |-> failAt, calls |-> <<>>, data |-> <<>>, err |-> FALSE]

\* One write of item to the sink w.
Write(w, item) ==
    LET fails == w.failAt # 0 /\ Len(w.calls) + 1 >= w.failAt IN
    [w EXCEPT !.calls = Append(@, item),
              !.data = IF fails THEN @ ELSE Append(@, item),
              !.err = @ \/ fails]

\* io.WriteString(w, s)
WriteString(w, s) ==
    Write(w, [kind |-> "WriteString", s |-> s, ref |-> 0, code |-> 0])

\* Aperture.WriteGerber(w, apertureIndex): the definition of aperture a.
ApertureWriteGerber(w, a, apertureIndex) ==
    Write(w, [kind |-> "Aperture.WriteGerber", s |-> "", ref |-> a, code |-> apertureIndex])

\* Primitive.WriteGerber(w, apertureIndex): the draw commands of primitive p.
PrimitiveWriteGerber(w, p, apertureIndex) ==
    Write(w, [kind |-> "Primitive.WriteGerber", s |-> "", ref |-> p, code |-> apertureIndex])

\* The select code of the first registered aperture.
ApertureBase == 12

RECURSIVE WriteAperturesFromIndexOne(_, _, _)
\* WriteApertures numbering the apertures from ApertureBase + 1.
WriteAperturesFromIndexOne(l, w, i) ==
    IF i > Len(l.Apertures) THEN w
    ELSE WriteAperturesFromIndexOne(l, ApertureWriteGerber(w, l.Apertures[i], ApertureBase + i), i + 1)

RECURSIVE WriteApertures(_, _, _)
\* WriteGerber's loop over l.Apertures[i..] (i is Go's index plus one).
WriteApertures(l, w, i) ==
    IF i > Len(l.Apertures) THEN w
    ELSE WriteApertures(l, ApertureWriteGerber(w, l.Apertures[i], ApertureBase + (i - 1)), i + 1)

\* The select code WriteGerber resolves for primitive p.
SelectCode(l, p) ==
    LET ai == MapGet(l.apertureMap, ID(PrimitiveAperture(p))) IN ApertureBase + ai

RECURSIVE WritePrimitives(_, _, _)
\* WriteGerber's loop over l.Primitives[i..].
WritePrimitives(l, w, i) ==
    IF i > Len(l.Primitives) THEN w
    ELSE WritePrimitives(l, PrimitiveWriteGerber(w, l.Primitives[i], SelectCode(l, l.Primitives[i])), i + 1)

\* WriteGerber dropping the cached bounding box.
WriteGerberForgetsMBB(l, w) ==
    LET w4 == WriteString(WriteString(WriteString(WriteString(w,
                  "%FSLAX36Y36*%\n"), "%MOMM*%\n"), "%LPD*%\n"), "%ADD11C,0.00100*%\n")
        w6 == WritePrimitives(l, WriteApertures(l, w4, 1), 1)
    IN [l |-> [l EXCEPT !.mbb = <<>>], w |-> WriteString(w6, "M02*\n"), err |-> "nil"]

\* WriteGerber writing the primitives before the aperture definitions.
WriteGerberDrawsFirst(l, w) ==
    LET w4 == WriteString(WriteString(WriteString(WriteString(w,
                  "%FSLAX36Y36*%\n"), "%MOMM*%\n"), "%LPD*%\n"), "%ADD11C,0.00100*%\n")
        w6 == WriteApertures(l, WritePrimitives(l, w4, 1), 1)
    IN [l |-> l, w |-> WriteString(w6, "M02*\n"), err |-> "nil"]

\* WriteGerber dropping the primitives it has written.
WriteGerberDrains(l, w) ==
    LET w4 == WriteString(WriteString(WriteString(WriteString(w,
                  "%FSLAX36Y36*%\n"), "%MOMM*%\n"), "%LPD*%\n"), "%ADD11C,0.00100*%\n")
        w6 == WritePrimitives(l, WriteApertures(l, w4, 1), 1)
    IN [l |-> [l EXCEPT !.Primitives = <<>>], w |-> WriteString(w6, "M02*\n"), err |-> "nil"]

\* Layer.WriteGerber(w): the layer and the sink afterwards, and the error
\* returned ("nil" for no error).
WriteGerber(l, w) ==
    LET w1 == WriteString(w, "%FSLAX36Y36*%\n")
        w2 == WriteString(w1, "%MOMM*%\n")
        w3 == WriteString(w2, "%LPD*%\n")
        w4 == WriteString(w3, "%ADD11C,0.00100*%\n")
        w5 == WriteApertures(l, w4, 1)
        w6 == WritePrimitives(l, w5, 1)
        w7 == WriteString(w6, "M02*\n")
    IN [l |-> l, w |-> w7, err |-> "nil"]

\* ------------------------------------------------------------------- MBB

RECURSIVE MBBLoopOverwrite(_, _)
\* MBBLoop storing each primitive's box instead of joining it.
MBBLoopOverwrite(l, i) ==
    IF i > Len(l.Primitives) THEN l
    ELSE MBBLoopOverwrite([l EXCEPT !.mbb = <<PrimitiveMBB(l.Primitives[i])>>], i + 1)

\* MBBLoop stopping after the first primitive.
MBBLoopNoJoin(l, i) ==
    IF i > Len(l.Primitives) THEN l
    ELSE [l EXCEPT !.mbb = <<PrimitiveMBB(l.Primitives[1])>>]

RECURSIVE MBBLoop(_, _)
\* MBB's loop over l.Primitives[i..] (i is Go's index plus one).
MBBLoop(l, i) ==
    IF i > Len(l.Primitives) THEN l
    ELSE LET v == PrimitiveMBB(l.Primitives[i]) IN
         IF i = 1 THEN MBBLoop([l EXCEPT !.mbb = <<v>>], i + 1)
         ELSE MBBLoop([l EXCEPT !.mbb = <<Join(l.mbb[1], v)>>], i + 1)

\* MBB returning the zero box of an empty layer without caching it.
MBBEmptyNotCached(l) ==
    IF l.mbb # <<>> THEN [l |-> l, ret |-> l.mbb[1], log |-> <<>>]
    ELSE LET l1 == MBBLoop(l, 1) IN
         IF l1.mbb = <<>>
         THEN [l |-> l1, ret |-> ZeroMBB, log |-> <<"No primivites on layer " \o l1.Filename>>]
         ELSE [l |-> l1, ret |-> l1.mbb[1], log |-> <<>>]

\* MBB computing the box anew on every call.
MBBRecomputes(l) ==
    LET l1 == MBBLoop([l EXCEPT !.mbb = <<>>], 1) IN
    IF l1.mbb = <<>>
    THEN [l   |-> [l1 EXCEPT !.mbb = <<ZeroMBB>>],
          ret |-> ZeroMBB,
          log |-> <<"No primivites on layer " \o l1.Filename>>]
    ELSE [l |-> l1, ret |-> l1.mbb[1], log |-> <<>>]

\* Layer.MBB(): the layer afterwards, the box returned and the lines logged.
MBB(l) ==
    IF l.mbb # <<>> THEN [l |-> l, ret |-> l.mbb[1], log |-> <<>>]
    ELSE LET l1 == MBBLoop(l, 1) IN
         IF l1.mbb = <<>>
         THEN [l   |-> [l1 EXCEPT !.mbb = <<ZeroMBB>>],
               ret |-> ZeroMBB,
               log |-> <<"No primivites on layer " \o l1.Filename>>]
         ELSE [l |-> l1, ret |-> l1.mbb[1], log |-> <<>>]

\* ----------------------------------------------------------------- state

VARIABLES
    g,         \* the design; g.Layers holds the layers its pointers refer to
    l,         \* the layer under use: the one g.Layers ends with
    last,      \* the most recent call on the layer and what it returned
    outs,      \* what the last two WriteGerber calls since the last Add emitted
    firstMBB,  \* <<box the first MBB call returned>>, or <<>> before it
    cachedLen, \* Len(l.Primitives) at the first MBB call (0 before it)
    threads    \* the goroutines calling into l at once, whether two overlapped,
               \* and the primitives l held when they were started

vars == <<g, l, last, outs, firstMBB, cachedLen, threads>>

\* No goroutine besides the caller's.
NoThreads == [t |-> <<>>, overlapped |-> FALSE, base |-> <<>>]

NoCall(op) ==
    [op |-> op, out |-> <<>>, sinkErr |-> FALSE, err |-> "nil",
     box |-> ZeroMBB, log |-> <<>>, args |-> <<>>, computed |-> FALSE]

\* The design after a change of the layer l points to.
Stored(x) == [g EXCEPT !.Layers[Len(g.Layers)] = x]

Init ==
    /\ g = GerberMakeLayer(NewGerber, "gtl").g
    /\ l = GerberMakeLayer(NewGerber, "gtl").layer
    /\ last = NoCall("makeLayer")
    /\ outs = <<>>
    /\ firstMBB = <<>>
    /\ cachedLen = 0
    /\ threads = NoThreads

\* The argument lists of at most n primitives.
ArgLists(n) == UNION {[1..k -> PrimitiveIds] : k \in 0..n}

\* A call l.Add(primitives...).
AddCall ==
    \E primitives \in ArgLists(MaxArgs) :
        /\ Len(l.Primitives) + Len(primitives) <= MaxPrims
        /\ l' = Add(l, primitives)
        /\ g' = Stored(l')
        /\ last' = [NoCall("Add") EXCEPT !.args = primitives]
        /\ outs' = <<>>
        /\ UNCHANGED <<firstMBB, cachedLen, threads>>

\* The number of writes WriteGerber attempts on layer x.
NumWrites(x) == 5 + Len(x.Apertures) + Len(x.Primitives)

\* The sinks a caller passes for layer x: one that never fails, and ones that
\* fail from the first header line, from the default definition, from the
\* write after it, from the last write before the trailer, or from the trailer.
FailPoints(x) == {0, 1, 4, 5, NumWrites(x) - 1, NumWrites(x)}

\* A call l.WriteGerber(w) on a sink that fails from some write on, or never.
WriteGerberCall ==
    \E failAt \in FailPoints(l) :
        LET r == WriteGerber(l, NewWriter(failAt)) IN
        /\ l' = r.l
        /\ g' = Stored(l')
        /\ last' = [NoCall("WriteGerber") EXCEPT !.out = r.w.calls,
                                                 !.sinkErr = r.w.err, !.err = r.err]
        /\ outs' = IF outs = <<>> THEN <<r.w.calls>> ELSE <<outs[Len(outs)], r.w.calls>>
        /\ UNCHANGED <<firstMBB, cachedLen, threads>>

\* A call l.MBB().
MBBCall ==
    LET r == MBB(l) IN
    /\ l' = r.l
    /\ g' = Stored(l')
    /\ last' = [NoCall("MBB") EXCEPT !.box = r.ret, !.log = r.log, !.computed = (l.mbb = <<>>)]
    /\ firstMBB' = IF firstMBB = <<>> THEN <<r.ret>> ELSE firstMBB
    /\ cachedLen' = IF firstMBB = <<>> THEN Len(l.Primitives) ELSE cachedLen
    /\ UNCHANGED <<outs, threads>>

Next == AddCall \/ WriteGerberCall \/ MBBCall

Spec == Init /\ [][Next]_vars

\* ------------------------------------------------------------ the factory

\* The zero value Layer{}: what l holds before a factory call returns a layer.
ZeroLayer ==
    [Filename    |-> "",
     Primitives  |-> <<>>,
     Apertures   |-> <<>>,
     apertureMap |-> [k \in {} |-> 0],
     g           |-> Nil,
     mbb         |-> <<>>]

InitFactory ==
    /\ g = NewGerber
    /\ l = ZeroLayer
    /\ last = NoCall("NewGerber")
    /\ outs = <<>>
    /\ firstMBB = <<>>
    /\ cachedLen = 0
    /\ threads = NoThreads

\* A factory call named op with arguments args that passes extension to
\* makeLayer; l becomes the layer returned.
FactoryCall(op, args, extension) ==
    LET r == GerberMakeLayer(g, extension) IN
    /\ Len(g.Layers) < MaxLayers
    /\ g' = r.g
    /\ l' = r.layer
    /\ last' = [NoCall(op) EXCEPT !.args = args]
    /\ outs' = <<>>
    /\ firstMBB' = <<>>
    /\ cachedLen' = 0
    /\ UNCHANGED threads

\* A call g.TopCopper(), g.TopSolderMask(), g.TopSilkscreen(), g.BottomCopper(),
\* g.BottomSolderMask(), g.BottomSilkscreen(), g.Drill() or g.Outline().
KindCall == \E kind \in LayerKinds : FactoryCall(kind, <<>>, KindExtension(kind))

\* A call g.LayerN(n).
LayerNCall == \E n \in LayerNumbers : FactoryCall("LayerN", <<n>>, LayerNExtension(n))

\* A call l.Add(p) on the layer last returned, while it is empty.
FactoryAddCall ==
    /\ Len(g.Layers) >= 1
    /\ l.Primitives = <<>>
    /\ l' = Add(l, <<1>>)
    /\ g' = Stored(l')
    /\ last' = [NoCall("Add") EXCEPT !.args = <<1>>]
    /\ UNCHANGED <<outs, firstMBB, cachedLen, threads>>

NextFactory == KindCall \/ LayerNCall \/ FactoryAddCall

SpecFactory == InitFactory /\ [][NextFactory]_vars

\* ------------------------------------------------------------ goroutines

\* A goroutine about to call l.Add(args...) or l.MBB(): pc is where it stands
\* in the call, i its loop index (Go's plus one), n the len(l.Apertures) it has
\* read, tmp the slice it has read (l.Apertures or l.Primitives).
Go(op, args) ==
    [op |-> op, args |-> args, run |-> "idle", pc |-> "range",
     i |-> 1, n |-> 0, tmp |-> <<>>]

\* AddThread registering without looking the key up.
AddThreadNoLookup(x, th) ==
    LET a == PrimitiveAperture(th.args[th.i]) IN
    CASE th.pc = "range" ->
            IF th.i > Len(th.args)
            THEN [l |-> x, th |-> [th EXCEPT !.pc = "readPrimitives"]]
            ELSE IF a = Nil
                 THEN [l |-> x, th |-> [th EXCEPT !.i = @ + 1]]
                 ELSE [l |-> x, th |-> [th EXCEPT !.pc = "len"]]
      [] th.pc = "len" ->
            [l |-> x, th |-> [th EXCEPT !.n = Len(x.Apertures), !.pc = "mapassign"]]
      [] th.pc = "mapassign" ->
            [l  |-> [x EXCEPT !.apertureMap = MapSet(@, ID(a), th.n)],
             th |-> [th EXCEPT !.pc = "readApertures"]]
      [] th.pc = "readApertures" ->
            [l |-> x, th |-> [th EXCEPT !.tmp = x.Apertures, !.pc = "writeApertures"]]
      [] th.pc = "writeApertures" ->
            [l  |-> [x EXCEPT !.Apertures = Append(th.tmp, a)],
             th |-> [th EXCEPT !.i = @ + 1, !.pc = "range"]]
      [] th.pc = "readPrimitives" ->
            [l |-> x, th |-> [th EXCEPT !.tmp = x.Primitives, !.pc = "writePrimitives"]]
      [] th.pc = "writePrimitives" ->
            [l  |-> [x EXCEPT !.Primitives = th.tmp \o th.args],
             th |-> [th EXCEPT !.pc = "return"]]

\* The next read or write of the layer x by a goroutine th inside Add: the
\* registry lookup, the read of len(l.Apertures), the registry assignment, the
\* read and the write of l.Apertures by append, the read and the write of
\* l.Primitives by append.
AddThread(x, th) ==
    LET a == PrimitiveAperture(th.args[th.i]) IN
    CASE th.pc = "range" ->
            IF th.i > Len(th.args)
            THEN [l |-> x, th |-> [th EXCEPT !.pc = "readPrimitives"]]
            ELSE IF a = Nil \/ ID(a) \in DOMAIN x.apertureMap
                 THEN [l |-> x, th |-> [th EXCEPT !.i = @ + 1]]
                 ELSE [l |-> x, th |-> [th EXCEPT !.pc = "len"]]
      [] th.pc = "len" ->
            [l |-> x, th |-> [th EXCEPT !.n = Len(x.Apertures), !.pc = "mapassign"]]
      [] th.pc = "mapassign" ->
            [l  |-> [x EXCEPT !.apertureMap = MapSet(@, ID(a), th.n)],
             th |-> [th EXCEPT !.pc = "readApertures"]]
      [] th.pc = "readApertures" ->
            [l |-> x, th |-> [th EXCEPT !.tmp = x.Apertures, !.pc = "writeApertures"]]
      [] th.pc = "writeApertures" ->
            [l  |-> [x EXCEPT !.Apertures = Append(th.tmp, a)],
             th |-> [th EXCEPT !.i = @ + 1, !.pc = "range"]]
      [] th.pc = "readPrimitives" ->
            [l |-> x, th |-> [th EXCEPT !.tmp = x.Primitives, !.pc = "writePrimitives"]]
      [] th.pc = "writePrimitives" ->
            [l  |-> [x EXCEPT !.Primitives = th.tmp \o th.args],
             th |-> [th EXCEPT !.pc = "return"]]

\* The next read or write of the layer x by a goroutine th inside MBB: the
\* read of l.mbb, the read of l.Primitives by range, one iteration storing or
\* joining into the cache, the final read of l.mbb with the store of the zero
\* box.
MBBThread(x, th) ==
    CASE th.pc = "range" ->
            IF x.mbb # <<>>
            THEN [l |-> x, th |-> [th EXCEPT !.pc = "return"]]
            ELSE [l |-> x, th |-> [th EXCEPT !.pc = "readPrimitives"]]
      [] th.pc = "readPrimitives" ->
            [l |-> x, th |-> [th EXCEPT !.tmp = x.Primitives, !.pc = "join"]]
      [] th.pc = "join" ->
            IF th.i > Len(th.tmp)
            THEN [l |-> x, th |-> [th EXCEPT !.pc = "nocache"]]
            ELSE LET v == PrimitiveMBB(th.tmp[th.i]) IN
                 [l  |-> [x EXCEPT !.mbb = IF th.i = 1 THEN <<v>>
                                           ELSE <<Join(x.mbb[1], v)>>],
                  th |-> [th EXCEPT !.i = @ + 1]]
      [] th.pc = "nocache" ->
            [l  |-> IF x.mbb = <<>> THEN [x EXCEPT !.mbb = <<ZeroMBB>>] ELSE x,
             th |-> [th EXCEPT !.pc = "return"]]

\* The goroutine th after a step: running until its call returns.
Ran(th) == [th EXCEPT !.run = IF th.pc = "return" THEN "done" ELSE "running"]

\* The layers two goroutines are handed: a new one, or one holding a primitive
\* with key B.
SharedLayers == {TopCopper, Add(TopCopper, <<3>>)}

\* Two goroutines share the layer l without synchronization: the first calls
\* l.Add(p), the second l.Add(q) or l.MBB().
InitConcurrent ==
    /\ l \in SharedLayers
    /\ g = [GerberMakeLayer(NewGerber, "gtl").g EXCEPT !.Layers[1] = l]
    /\ last = NoCall("go")
    /\ outs = <<>>
    /\ firstMBB = <<>>
    /\ cachedLen = 0
    /\ \E p \in PrimitiveIds :
       \E second \in {Go("Add", <<q>>) : q \in PrimitiveIds} \cup {Go("MBB", <<>>)} :
            threads = [t |-> <<Go("Add", <<p>>), second>>, overlapped |-> FALSE,
                       base |-> l.Primitives]

\* Goroutine k performs its next read or write; the two overlap when the other
\* goroutine is inside its call at that moment.
ThreadStep(k, r) ==
    /\ l' = r.l
    /\ g' = Stored(l')
    /\ threads' = [t          |-> [threads.t EXCEPT ![k] = Ran(r.th)],
                   overlapped |-> threads.overlapped \/ threads.t[3 - k].run = "running",
                   base       |-> threads.base]
    /\ UNCHANGED <<last, outs, firstMBB, cachedLen>>

\* A step of a goroutine inside l.Add.
AddGo ==
    \E k \in DOMAIN threads.t :
        /\ threads.t[k].op = "Add"
        /\ threads.t[k].run # "done"
        /\ ThreadStep(k, AddThread(l, threads.t[k]))

\* A step of a goroutine inside l.MBB.
MBBGo ==
    \E k \in DOMAIN threads.t :
        /\ threads.t[k].op = "MBB"
        /\ threads.t[k].run # "done"
        /\ ThreadStep(k, MBBThread(l, threads.t[k]))

NextConcurrent == AddGo \/ MBBGo

SpecConcurrent == InitConcurrent /\ [][NextConcurrent]_vars

\* ---------------------------------------------------------------- claims

\* The writes WriteGerber attempts that draw a primitive.
IsDraw(item) == item.kind = "Primitive.WriteGerber"

\* The writes WriteGerber attempts that define an aperture.
IsDefinition(item) == item.kind = "Aperture.WriteGerber"

Line(s) == [kind |-> "WriteString", s |-> s, ref |-> 0, code |-> 0]

\* The output C1 describes for layer x.
ExpectedOutput(x) ==
    <<Line("%FSLAX36Y36*%\n"), Line("%MOMM*%\n"), Line("%LPD*%\n"), Line("%ADD11C,0.00100*%\n")>>
    \o [i \in 1..Len(x.Apertures) |->
          [kind |-> "Aperture.WriteGerber", s |-> "", ref |-> x.Apertures[i], code |-> 12 + (i - 1)]]
    \o [i \in 1..Len(x.Primitives) |->
          [kind |-> "Primitive.WriteGerber", s |-> "", ref |-> x.Primitives[i],
           code |-> 12 + x.apertureMap[ID(PrimitiveAperture(x.Primitives[i]))]]]
    \o <<Line("M02*\n")>>

\* C1: what WriteGerber emits is the three header lines, the default
\* definition, one definition per element of Apertures in registry order with
\* code 12+i, one draw per element of Primitives in insertion order with code
\* 12 + (registry index of its aperture key), and the trailer M02*.
C1_OutputSequence ==
    last.op = "WriteGerber" => last.out = ExpectedOutput(l)

\* C1 witness: the layer holding primitives with keys A, B, null was written:
\* definitions D12 and D13, draws with 12, 13, 11.
C1_Witness ==
    /\ last.op = "WriteGerber"
    /\ l.Primitives = <<1, 3, 5>>
    /\ [i \in 1..Len(last.out) |-> last.out[i].code] = <<0, 0, 0, 0, 12, 13, 12, 13, 11, 0>>

\* The identity keys the non-nil apertures of the primitives ps report.
KeysReported(ps) ==
    {ID(PrimitiveAperture(ps[i])) : i \in {j \in DOMAIN ps : PrimitiveAperture(ps[j]) # Nil}}

\* The position in ps of the first primitive whose non-nil aperture reports k.
FirstSeen(ps, k) ==
    CHOOSE i \in DOMAIN ps :
        /\ PrimitiveAperture(ps[i]) # Nil /\ ID(PrimitiveAperture(ps[i])) = k
        /\ \A j \in 1..(i - 1) : PrimitiveAperture(ps[j]) = Nil \/ ID(PrimitiveAperture(ps[j])) # k

\* Apertures holds exactly the keys K, each once, in first-seen order.
RegistersExactly(x, K) ==
    /\ Len(x.Apertures) = Cardinality(K)
    /\ {ID(x.Apertures[i]) : i \in DOMAIN x.Apertures} = K
    /\ \A i, j \in DOMAIN x.Apertures : i # j => ID(x.Apertures[i]) # ID(x.Apertures[j])
    /\ \A i, j \in DOMAIN x.Apertures :
          i < j => FirstSeen(x.Primitives, ID(x.Apertures[i])) < FirstSeen(x.Primitives, ID(x.Apertures[j]))

\* C2 as stated: Apertures has one entry per distinct identity key the added
\* primitives report, without duplicates, in first-seen order.
C2_Original == RegistersExactly(l, KeysReported(l.Primitives))

\* C2 as amended: Apertures has one entry per distinct identity key other than
\* the reserved key "default" that the added primitives report, without
\* duplicates, in first-seen order.
C2_Deduplication == RegistersExactly(l, KeysReported(l.Primitives) \ {"default"})

\* C2 witness: one Add call was given two primitives reporting the same new key
\* (two distinct aperture objects), after another key was registered.
C2_Witness ==
    /\ last.op = "Add"
    /\ last.args = <<2, 1>>
    /\ l.Primitives = <<3, 2, 1>>
    /\ l.Apertures = <<3, 2>>

\* C3: a primitive that reports a nil aperture is passed select code 11 by
\* WriteGerber, wherever it sits and however many apertures are registered.
C3_DefaultRouting ==
    last.op = "WriteGerber" =>
        \A n \in DOMAIN last.out :
            (IsDraw(last.out[n]) /\ PrimitiveAperture(last.out[n].ref) = Nil)
                => last.out[n].code = 11

\* C3 witness: a nil-aperture primitive added before two real apertures were
\* registered was written.
C3_Witness ==
    /\ last.op = "WriteGerber"
    /\ l.Primitives = <<5, 1, 3>>
    /\ Len(l.Apertures) = 2
    /\ \E n \in DOMAIN last.out : IsDraw(last.out[n]) /\ last.out[n].ref = 5 /\ last.out[n].code = 11

\* The writes of out that refer to identity key k: the definition of an
\* aperture reporting k, or the draw of a primitive whose aperture reports k.
RefersTo(item, k) ==
    \/ IsDefinition(item) /\ ID(item.ref) = k
    \/ IsDraw(item) /\ PrimitiveAperture(item.ref) # Nil /\ ID(PrimitiveAperture(item.ref)) = k

\* The keys Add has registered in layer x.
Registered(x) == DOMAIN x.apertureMap \ {"default"}

\* C4: a key registered at position i stays mapped to i by every later call,
\* Apertures[i] stays that aperture, and WriteGerber resolves 12+i for it.
C4_IndexStability ==
    [][\A k \in Registered(l) :
          LET i == l.apertureMap[k] IN
          /\ k \in DOMAIN l'.apertureMap
          /\ l'.apertureMap[k] = i
          /\ i + 1 \in DOMAIN l.Apertures
          /\ i + 1 \in DOMAIN l'.Apertures
          /\ l'.Apertures[i + 1] = l.Apertures[i + 1]
          /\ ID(l.Apertures[i + 1]) = k
          /\ last'.op = "WriteGerber" =>
                \A n \in DOMAIN last'.out : RefersTo(last'.out[n], k) => last'.out[n].code = 12 + i]_vars

\* C4 witness: key A was registered at 0, then key B was added, MBB was
\* called, another aperture object with key A was added, and the layer was
\* written with A still at D12.
C4_Witness ==
    /\ last.op = "WriteGerber"
    /\ l.Primitives = <<1, 3, 2>>
    /\ cachedLen = 2
    /\ l.apertureMap["A"] = 0
    /\ \E n \in DOMAIN last.out : IsDraw(last.out[n]) /\ last.out[n].ref = 2 /\ last.out[n].code = 12

\* Box outer encloses box inner.
Encloses(outer, inner) ==
    /\ outer.Min[1] <= inner.Min[1] /\ outer.Min[2] <= inner.Min[2]
    /\ outer.Max[1] >= inner.Max[1] /\ outer.Max[2] >= inner.Max[2]

\* C5 as stated: the box MBB returns encloses the box of every primitive
\* currently in the layer.
C5_Original ==
    last.op = "MBB" =>
        \A i \in DOMAIN l.Primitives : Encloses(last.box, PrimitiveMBB(l.Primitives[i]))

\* C5 as amended: the box MBB returns encloses the box of every primitive
\* that was in the layer at its first MBB call.
C5_EnclosesCached ==
    last.op = "MBB" =>
        /\ cachedLen <= Len(l.Primitives)
        /\ \A i \in 1..cachedLen : Encloses(last.box, PrimitiveMBB(l.Primitives[i]))

\* C5 witness: MBB was first called on two primitives neither of which
\* encloses the other, and called again after a later Add.
C5_Witness ==
    /\ last.op = "MBB"
    /\ ~last.computed
    /\ cachedLen = 2
    /\ Len(l.Primitives) = 3
    /\ last.box # PrimitiveMBB(l.Primitives[1])
    /\ last.box # PrimitiveMBB(l.Primitives[2])

\* C6: every MBB call returns the box the first MBB call returned, and the
\* cached box stays that box whatever Add appends.
C6_CacheStaleness ==
    /\ last.op = "MBB" => last.box = firstMBB[1]
    /\ firstMBB # <<>> => l.mbb = firstMBB

\* C6 witness: MBB was called on the empty layer, a primitive lying outside
\* the cached box was added, and MBB was called again.
C6_Witness ==
    /\ last.op = "MBB"
    /\ ~last.computed
    /\ cachedLen = 0
    /\ \E i \in DOMAIN l.Primitives : ~Encloses(last.box, PrimitiveMBB(l.Primitives[i]))

\* The least and the greatest element of a set of integers.
Least(S) == CHOOSE m \in S : \A x \in S : m <= x
Greatest(S) == CHOOSE m \in S : \A x \in S : m >= x

\* The union of the boxes of the primitives ps.
UnionOfBoxes(ps) ==
    LET B == {PrimitiveMBB(ps[i]) : i \in DOMAIN ps} IN
    [Min |-> <<Least({b.Min[1] : b \in B}), Least({b.Min[2] : b \in B})>>,
     Max |-> <<Greatest({b.Max[1] : b \in B}), Greatest({b.Max[2] : b \in B})>>]

\* The primitives ps in the order f.
Permuted(ps, f) == [i \in DOMAIN ps |-> ps[f[i]]]

\* C7: the first MBB call on a layer with n >= 1 primitives returns the union
\* of their boxes, and would return the same box had they been added in any
\* other order.
C7_BoundingBoxUnion ==
    (last.op = "MBB" /\ last.computed /\ Len(l.Primitives) >= 1) =>
        /\ last.box = UnionOfBoxes(l.Primitives)
        /\ \A f \in Permutations(DOMAIN l.Primitives) :
              MBB(Add(TopCopper, Permuted(l.Primitives, f))).ret = last.box

\* C7 witness: the first MBB call was made on three primitives with three
\* different boxes, whose union is none of them.
C7_Witness ==
    /\ last.op = "MBB"
    /\ last.computed
    /\ Len(l.Primitives) = 3
    /\ Cardinality({PrimitiveMBB(l.Primitives[i]) : i \in DOMAIN l.Primitives}) = 3
    /\ \A i \in DOMAIN l.Primitives : last.box # PrimitiveMBB(l.Primitives[i])

\* C8: the first MBB call on a layer without primitives returns the zero
\* box and stores it in the cache.
C8_EmptyLayerMBB ==
    (last.op = "MBB" /\ last.computed /\ Len(l.Primitives) = 0) =>
        /\ last.box = ZeroMBB
        /\ last.box.Min = <<0, 0>> /\ last.box.Max = <<0, 0>>
        /\ l.mbb = <<ZeroMBB>>

\* C8 witness: MBB was called on an empty layer with no cached box and logged
\* that the layer has no primitives.
C8_Witness ==
    /\ last.op = "MBB"
    /\ last.computed
    /\ Len(l.Primitives) = 0
    /\ last.log = <<"No primivites on layer board.gtl">>

\* C9: when a write to the sink fails during WriteGerber, WriteGerber returns
\* that failure; it returns no error only when no write failed.
C9_SinkFailurePropagated ==
    last.op = "WriteGerber" => (last.sinkErr <=> last.err # "nil")

\* C10: WriteGerber calls with no Add in between emit identical output.
C10_Idempotent ==
    \A i, j \in DOMAIN outs : outs[i] = outs[j]

\* C10 witness: a layer with two registered apertures was written twice with
\* no Add in between, after MBB was called.
C10_Witness ==
    /\ last.op = "WriteGerber"
    /\ Len(outs) = 2
    /\ Len(l.Apertures) = 2
    /\ Len(l.Primitives) = 3
    /\ firstMBB # <<>>

\* The filename C11 gives the layer a factory call op(args) creates.
ExpectedFilename(op, args) ==
    CASE op = "TopCopper"        -> "board.gtl"
      [] op = "TopSolderMask"    -> "board.gts"
      [] op = "TopSilkscreen"    -> "board.gto"
      [] op = "BottomCopper"     -> "board.gbl"
      [] op = "BottomSolderMask" -> "board.gbs"
      [] op = "BottomSilkscreen" -> "board.gbo"
      [] op = "Drill"            -> "board.drl"
      [] op = "Outline"          -> "board.gko"
      [] op = "LayerN"           -> IF args = <<2>> THEN "board.gl2" ELSE "board.gl12"

IsFactoryCall(op) == op \in LayerKinds \cup {"LayerN"}

\* C11: a factory call creates one layer named prefix.extension, with no
\* primitives, no apertures, no cached box and the registry "default" -> -1,
\* and appends it to the design's layers, leaving the earlier entries as they
\* were, whether or not a layer with that filename exists already.
C11_LayerFactory ==
    [][IsFactoryCall(last'.op) =>
          LET n == Len(g.Layers) IN
          /\ Len(g'.Layers) = n + 1
          /\ SubSeq(g'.Layers, 1, n) = g.Layers
          /\ g'.Layers[n + 1] = l'
          /\ l'.Filename = ExpectedFilename(last'.op, last'.args)
          /\ l'.Primitives = <<>>
          /\ l'.Apertures = <<>>
          /\ l'.mbb = <<>>
          /\ DOMAIN l'.apertureMap = {"default"}
          /\ l'.apertureMap["default"] = 0 - 1]_vars

\* C11 witness: LayerN(12) was called twice; the design holds two layers named
\* board.gl12, the first with the primitive added to it, the second empty.
C11_Witness ==
    /\ last.op = "LayerN"
    /\ Len(g.Layers) = 2
    /\ g.Layers[1].Filename = "board.gl12"
    /\ g.Layers[2].Filename = "board.gl12"
    /\ g.Layers[1].Primitives = <<1>>
    /\ g.Layers[2] = l
    /\ l.Primitives = <<>>

\* C12: the registry holds "default" -> -1; every other key maps to a valid
\* position of Apertures holding an aperture with that key; and every element
\* of Apertures has its key registered at its own position.
C12_RegistryConsistency ==
    /\ "default" \in DOMAIN l.apertureMap
    /\ l.apertureMap["default"] = 0 - 1
    /\ \A k \in DOMAIN l.apertureMap \ {"default"} :
          /\ 0 <= l.apertureMap[k]
          /\ l.apertureMap[k] < Len(l.Apertures)
          /\ ID(l.Apertures[l.apertureMap[k] + 1]) = k
    /\ \A i \in DOMAIN l.Apertures :
          /\ ID(l.Apertures[i]) \in DOMAIN l.apertureMap
          /\ l.apertureMap[ID(l.Apertures[i])] = i - 1

\* C12 witness: keys B and A were registered in that order by two Add calls
\* and MBB and WriteGerber were called since.
C12_Witness ==
    /\ last.op = "MBB"
    /\ outs # <<>>
    /\ l.Primitives = <<3, 1>>
    /\ cachedLen = 1
    /\ l.apertureMap["B"] = 0
    /\ l.apertureMap["A"] = 1

\* C13: every primitive of the layer that reports a non-nil aperture reports
\* an identity key present in the registry.
C13_Resolvable ==
    \A i \in DOMAIN l.Primitives :
        PrimitiveAperture(l.Primitives[i]) # Nil
            => ID(PrimitiveAperture(l.Primitives[i])) \in DOMAIN l.apertureMap

\* C13 witness: an Add call that inserted two primitives with new keys has
\* just returned.
C13_Witness ==
    /\ last.op = "Add"
    /\ last.args = <<3, 1>>
    /\ l.Primitives = <<5, 3, 1>>

\* C14: every call leaves the earlier primitives as a prefix, and Add(p1..pk)
\* extends the sequence by exactly p1..pk in argument order.
C14_AppendOnly ==
    [][/\ Len(l.Primitives) <= Len(l'.Primitives)
       /\ SubSeq(l'.Primitives, 1, Len(l.Primitives)) = l.Primitives
       /\ last'.op = "Add" => l'.Primitives = l.Primitives \o last'.args]_vars

\* C14 witness: Add was given a nil-aperture primitive and one whose key was
\* registered already, and appended both after the earlier primitive.
C14_Witness ==
    /\ last.op = "Add"
    /\ last.args = <<5, 2>>
    /\ l.Primitives = <<1, 5, 2>>
    /\ l.Apertures = <<1>>

\* C15: a WriteGerber call leaves Filename, Primitives, Apertures, the
\* registry (also its set of keys) and the cached box as they were.
C15_WriteGerberReadOnly ==
    [][last'.op = "WriteGerber" =>
          /\ l'.Filename = l.Filename
          /\ l'.Primitives = l.Primitives
          /\ l'.Apertures = l.Apertures
          /\ DOMAIN l'.apertureMap = DOMAIN l.apertureMap
          /\ l'.apertureMap = l.apertureMap
          /\ l'.mbb = l.mbb
          /\ g' = g]_vars

\* C15 witness: a layer with a cached box, one registered key, a primitive
\* with the reserved key and one with a nil aperture was written.
C15_Witness ==
    /\ last.op = "WriteGerber"
    /\ l.mbb # <<>>
    /\ l.Primitives = <<4, 3, 5>>
    /\ DOMAIN l.apertureMap = {"default", "B"}

\* C16: a MBB call leaves Filename, Primitives, Apertures and the registry as
\* they were, stores a box when none was cached, and leaves a cached box as it
\* was.
C16_MBBFrame ==
    [][last'.op = "MBB" =>
          /\ l'.Filename = l.Filename
          /\ l'.Primitives = l.Primitives
          /\ l'.Apertures = l.Apertures
          /\ l'.apertureMap = l.apertureMap
          /\ l.mbb # <<>> => l'.mbb = l.mbb
          /\ l.mbb = <<>> => l'.mbb = <<last'.box>>]_vars

\* C16 witness: MBB was called with a box cached when the layer held one
\* primitive, after two more primitives outside that box were added.
C16_Witness ==
    /\ last.op = "MBB"
    /\ ~last.computed
    /\ cachedLen = 1
    /\ Len(l.Primitives) = 3
    /\ Len(l.Apertures) = 2
    /\ l.mbb = <<PrimitiveMBB(l.Primitives[1])>>
    /\ l.mbb # <<UnionOfBoxes(l.Primitives)>>

\* C18: every select code WriteGerber passes to a primitive is 11 or 12+i
\* with i < Len(Apertures), and the definition of that code (the fixed D11
\* line, or the definition of Apertures[i]) was written earlier.
C18_DefineBeforeUse ==
    last.op = "WriteGerber" =>
        \A n \in DOMAIN last.out :
            IsDraw(last.out[n]) =>
                LET c == last.out[n].code IN
                /\ c >= 11
                /\ c < 12 + Len(l.Apertures)
                /\ c = 11 => \E m \in 1..(n - 1) : last.out[m] = Line("%ADD11C,0.00100*%\n")
                /\ c >= 12 => \E m \in 1..(n - 1) :
                                 /\ IsDefinition(last.out[m])
                                 /\ last.out[m].code = c
                                 /\ last.out[m].ref = l.Apertures[c - 12 + 1]

\* C18 witness: a layer whose primitives use D12, D11 and D13 in that order
\* was written.
C18_Witness ==
    /\ last.op = "WriteGerber"
    /\ l.Primitives = <<3, 5, 1>>
    /\ [i \in 1..Len(last.out) |-> last.out[i].code] = <<0, 0, 0, 0, 12, 13, 12, 11, 13, 0>>

\* Primitive p reports a non-nil aperture whose identity key is "default".
ReportsReservedKey(p) == PrimitiveAperture(p) # Nil /\ ID(PrimitiveAperture(p)) = "default"

\* C19: a primitive whose non-nil aperture reports the key "default" is
\* handled like a nil-aperture primitive: Add neither appends its aperture nor
\* changes the registry, and WriteGerber writes no definition for the aperture
\* and passes the primitive select code 11.
C19_ReservedKeyCollision ==
    [][/\ (last'.op = "Add" /\ \A i \in DOMAIN last'.args : ReportsReservedKey(last'.args[i]))
            => (l'.Apertures = l.Apertures /\ l'.apertureMap = l.apertureMap)
       /\ \A i \in DOMAIN l'.Apertures : ID(l'.Apertures[i]) # "default"
       /\ l'.apertureMap["default"] = 0 - 1
       /\ \A p, q \in PrimitiveIds :
             (ReportsReservedKey(p) /\ PrimitiveAperture(q) = Nil) =>
                 /\ Add(l, <<p>>).Apertures = Add(l, <<q>>).Apertures
                 /\ Add(l, <<p>>).apertureMap = Add(l, <<q>>).apertureMap
       /\ last'.op = "WriteGerber" =>
             \A n \in DOMAIN last'.out :
                 /\ IsDefinition(last'.out[n]) => ID(last'.out[n].ref) # "default"
                 /\ (IsDraw(last'.out[n]) /\ ReportsReservedKey(last'.out[n].ref))
                        => last'.out[n].code = 11]_vars

\* C19 witness: a layer holding a primitive with key A, one whose aperture
\* reports "default" and one with a nil aperture was written: one definition,
\* draws with 12, 11, 11.
C19_Witness ==
    /\ last.op = "WriteGerber"
    /\ l.Primitives = <<1, 4, 5>>
    /\ l.Apertures = <<1>>
    /\ [i \in 1..Len(last.out) |-> last.out[i].code] = <<0, 0, 0, 0, 12, 12, 11, 11, 0>>

\* Every goroutine's call has returned.
AllDone == threads.t # <<>> /\ \A k \in DOMAIN threads.t : threads.t[k].run = "done"

\* Both goroutines called Add.
TwoAdds == \A k \in DOMAIN threads.t : threads.t[k].op = "Add"

\* Two elements of Apertures report the same identity key.
DuplicateKey ==
    \E i, j \in DOMAIN l.Apertures : i < j /\ ID(l.Apertures[i]) = ID(l.Apertures[j])

\* Primitives is what the layer held at the start followed by what the Add
\* calls were handed, in one order or the other.
NoneLost ==
    \/ /\ TwoAdds
       /\ \E k \in DOMAIN threads.t :
             l.Primitives = threads.base \o threads.t[k].args \o threads.t[3 - k].args
    \/ /\ ~TwoAdds
       /\ l.Primitives = threads.base \o threads.t[1].args

\* The cached box, when a MBB call returned, is the union of the boxes of the
\* primitives that call read, which are the layer's at the start or at the
\* end; it is the zero box if it read none. No box is cached otherwise.
CacheIsUnion ==
    IF TwoAdds THEN l.mbb = <<>>
    ELSE LET read == threads.t[2].tmp IN
         /\ read \in {threads.base, l.Primitives}
         /\ l.mbb = <<IF read = <<>> THEN ZeroMBB ELSE UnionOfBoxes(read)>>

\* The invariants of a layer between calls.
LayerInvariants ==
    /\ C12_RegistryConsistency
    /\ ~DuplicateKey
    /\ C13_Resolvable
    /\ NoneLost
    /\ CacheIsUnion

====
